---- MODULE Spec2Model ----
(***************************************************************************)
(* rx888_stream: the asynchronous bulk-transfer pipeline of                *)
(* src/rx888_stream.c (transfer_callback, sig_stop and the streaming part  *)
(* of main), as a state machine.                                           *)
(*                                                                         *)
(* Granularity.  The program is single threaded; the only other execution  *)
(* context is the signal handler sig_stop, which writes stop_transfers and *)
(* touches nothing else.  A step of the model is therefore a block of      *)
(* statements that contains at most one read of stop_transfers (line 93,   *)
(* line 503): every other statement commutes with the handler.  The        *)
(* completion callback is split at its flag check (line 93) and at its     *)
(* resubmission (lines 94-95), so that a signal can arrive in between.     *)
(***************************************************************************)
EXTENDS Integers, Sequences, FiniteSets, TLC

(* ---------------------------------------------------------------- bounds *)
\* queuedepth is drawn from 1..MaxQueueDepth (the program accepts 1..64).
MaxQueueDepth == 2
\* success_count and failure_count are unsigned int and wrap; the model wraps
\* them at CountMod instead of 2^32.
CountMod == 2
\* actual_length of a completed transfer is drawn from 0..MaxLen bytes.
MaxLen == 1
\* the firmware transfers that succeed in one run are capped at MaxFwLoads
\* (the program itself sets no limit)
MaxFwLoads == 2
\* the buffer of a transfer holds up to MaxBufLen bytes
MaxBufLen == 4
\* the sample rates given to actual_freq are k MHz and k MHz + 1 Hz, for k
\* in 1..MaxFreqMHz
MaxFreqMHz == 64

(* ------------------------------------------------------ program constants *)
\* GPIO mode bits of rx888.h (the header is not part of src/); only their
\* being distinct bits matters here.
DITH == 1
RANDO == 2
\* unsigned int gain = 0x80; unsigned int att = 0;
DefaultGain == 128
DefaultAtt == 0
\* minimum sample rate accepted by option parsing, and the default
MinSampleRate == 1000000
DefaultSampleRate == 32000000

SampleRates == {MinSampleRate, DefaultSampleRate}
\* static uint32_t xtalFreq = 27000000;
DefaultXtalFreq == 27000000
\* case 'T': xtalFreq = (uint32_t)10000000;
RefClock10M == 10000000
XtalFreqs == {DefaultXtalFreq, RefClock10M}
\* 900000000UL, the maximum internal PLL frequency
MaxPllFreq == 900000000
\* uint32_t denom = 1048575;
denom == 1048575

\* the signals main() installs sig_stop for
HandledSignals == {"SIGINT", "SIGTERM", "SIGPIPE"}
\* those the environment sends asynchronously; SIGPIPE is raised by write()
\* on a pipe whose reader has gone
AsyncSignals == {"SIGINT", "SIGTERM"}

VARIABLES
    queuedepth,         \* unsigned int queuedepth (option -q)
    randomizer,         \* static int randomizer   (option -r)
    dither,             \* static int dither       (option -d)
    samplerate,         \* unsigned int samplerate (option -s)
    xtalFreq,           \* static uint32_t xtalFreq (option -T)
    pc,                 \* position of main()
    idx,                \* loop index i of the submit loop (0-based, as in C)
    pool,               \* databuffers/transfers: "none", "allocated", "freed"
    slot,               \* state of transfers[s], s in 0..queuedepth-1
    cb,                 \* slot whose transfer_callback is executing, -1 if none
    cbpc,               \* position inside transfer_callback
    size,               \* local int size of transfer_callback
    ret,                \* local int ret of transfer_callback
    stop_transfers,     \* volatile bool stop_transfers
    xfers_in_progress,  \* volatile int xfers_in_progress
    success_count,      \* unsigned int success_count
    failure_count,      \* unsigned int failure_count
    cmds,               \* the vendor commands sent to the device, in order
    pending,            \* signal raised synchronously and not yet handled
    stopsig,            \* history: signum of the sig_stop call that set the flag
    ai,                 \* loop index i of the allocation loop (line 460)
    tables,             \* the two pointer tables: databuffers and transfers
    databuffers,        \* databuffers[s]: "NULL" or "allocated"
    transfers,          \* transfers[s]: "NULL" or "allocated"
    allocs,             \* history: allocations made, per kind and slot
    frees,              \* history: frees made, per kind and slot
    firmware,           \* const char *firmware is not NULL (option -f given)
    device,             \* product state in which the receiver enumerates now
    dev_handle,         \* dev_handle: 0 for NULL, else an index into handles
    handles,            \* history: every handle opened, its device and closes
    fwloads,            \* history: firmware transfers that succeeded
    claimed,            \* libusb_claim_interface: "no", "claimed", "failed"
    fatal,              \* history: the startup failure that ended bring-up
    buf,                \* transfer->buffer, the bytes of the callback's transfer
    orig,               \* history: the bytes as the transfer delivered them
    passes,             \* history: times the post-processor ran over buf
    cbops,              \* history: what this callback did to its buffer so far
    plan                \* what actual_freq computed: << >>, or <<the plan>>

vars == <<queuedepth, randomizer, dither, samplerate, xtalFreq, pc, idx, pool, slot, cb,
          cbpc, size, ret, stop_transfers, xfers_in_progress, success_count,
          failure_count, cmds, pending, stopsig, ai, tables, databuffers,
          transfers, allocs, frees, firmware, device, dev_handle, handles,
          fwloads, claimed, fatal, buf, orig, passes, cbops, plan>>

opts == <<queuedepth, randomizer, dither, samplerate, xtalFreq>>
counters == <<success_count, failure_count>>
cbvars == <<cb, cbpc, size, ret, cbops>>
mem == <<ai, tables, databuffers, transfers, allocs, frees>>
\* the state of the streaming part
pipeline == <<mem, idx, pool, slot, cbvars, stop_transfers, xfers_in_progress,
              counters, cmds, pending, stopsig>>
\* the buffer contents and the clock plan
data == <<buf, orig, passes, plan>>
\* what the pipeline never touches: the state of bring-up
env == <<firmware, device, dev_handle, fwloads, claimed, fatal, buf, orig,
         passes, plan>>
rest == <<env, handles>>

Slots == 0 .. (queuedepth - 1)
SlotStates == {"Idle", "Submitted", "CompletedOk", "CompletedErr"}

Cmd(op, arg) == [op |-> op, arg |-> arg]

\* The streaming and bring-up specifications do not follow the contents of
\* the buffers, and start after the call of actual_freq (line 325), whose
\* result main() discards.
NoData ==
    /\ buf = << >>
    /\ orig = << >>
    /\ passes = 0
    /\ plan = << >>

\* product states of the receiver (its USB product id): without firmware
\* (0x00f3, the boot loader) and with it (0x00f1)
ProductStates == {"Unprogrammed", "Operational"}

\* a handle libusb_open returned, for a device in product state kind
Handle(kind) == [kind |-> kind, closes |-> 0]

\* lines 478-484: uint32_t gpio = 0; if (dither) gpio |= DITH; ...
GpioWord(d, r) == (IF d THEN DITH ELSE 0) + (IF r THEN RANDO ELSE 0)

\* The streaming engine started before the ADC clock.
ConfigSeqSwapped ==
    << Cmd("GPIOFX3", GpioWord(dither, randomizer)),
       Cmd("DAT31_ATT", DefaultAtt),
       Cmd("AD8340_VGA", DefaultGain),
       Cmd("STARTFX3", 0),
       Cmd("STARTADC", samplerate),
       Cmd("TUNERSTDBY", 0) >>

\* lines 486-497: the configuration commands, in program order
ConfigSeq ==
    << Cmd("GPIOFX3", GpioWord(dither, randomizer)),
       Cmd("DAT31_ATT", DefaultAtt),
       Cmd("AD8340_VGA", DefaultGain),
       Cmd("STARTADC", samplerate),
       Cmd("STARTFX3", 0),
       Cmd("TUNERSTDBY", 0) >>

\* line 515
StopCmd == Cmd("STOPFX3", 0)

Init ==
    /\ queuedepth \in 1 .. MaxQueueDepth
    /\ randomizer \in BOOLEAN
    /\ dither \in BOOLEAN
    /\ samplerate \in SampleRates
    /\ xtalFreq = DefaultXtalFreq
    /\ pc = "alloc"
    /\ idx = 0
    /\ pool = "none"
    /\ slot = [s \in Slots |-> "Idle"]
    /\ cb = -1
    /\ cbpc = "none"
    /\ cbops = << >>
    /\ size = 0
    /\ ret = 0
    /\ stop_transfers = FALSE
    /\ xfers_in_progress = 0
    /\ success_count = 0
    /\ failure_count = 0
    /\ cmds = << >>
    /\ pending = "none"
    /\ stopsig = "none"
    /\ ai = 0
    /\ tables = [databuffers |-> "NULL", transfers |-> "NULL"]
    /\ databuffers = [s \in Slots |-> "NULL"]
    /\ transfers = [s \in Slots |-> "NULL"]
    /\ allocs = [k \in {"databuffers", "transfers"} |-> [s \in Slots |-> 0]]
    /\ frees = [k \in {"databuffers", "transfers"} |-> [s \in Slots |-> 0]]
    /\ firmware = TRUE
    /\ device = "Operational"
    /\ dev_handle = 1
    /\ handles = <<Handle("Operational")>>
    /\ fwloads = 0
    /\ claimed = "claimed"
    /\ fatal = "none"
    /\ NoData

\* The program runs (main or a callback) only when no synchronously raised
\* signal awaits its handler.
Running == pending = "none" /\ pc \notin {"done", "crashed"}

(* ----------------------------------------------------------- sig_stop *)
\* A handler that also gave up the transfers in flight.
sig_stop_cancelling(signum) ==
    /\ stop_transfers' = TRUE
    /\ stopsig' = IF stop_transfers THEN stopsig ELSE signum
    /\ slot' = [s \in Slots |-> IF slot[s] = "Submitted" THEN "Idle" ELSE slot[s]]
    /\ xfers_in_progress' = 0
    /\ UNCHANGED counters

\* lines 125-130: stop_transfers = true; no other global is written.
sig_stop(signum) ==
    /\ stop_transfers' = TRUE
    /\ stopsig' = IF stop_transfers THEN stopsig ELSE signum
    /\ UNCHANGED <<xfers_in_progress, counters, slot>>

\* A termination signal, delivered at any point of the run.
Signal ==
    /\ Running
    /\ \E signum \in AsyncSignals : sig_stop(signum)
    /\ UNCHANGED <<opts, rest, mem, pc, idx, pool, cbvars, cmds, pending>>

\* The SIGPIPE raised by a write() to a broken pipe: its handler runs before
\* write() returns to transfer_callback.
SigPipe ==
    /\ pending = "SIGPIPE"
    /\ sig_stop("SIGPIPE")
    /\ pending' = "none"
    /\ UNCHANGED <<opts, rest, mem, pc, idx, pool, cbvars, cmds>>

(* ------------------------------------------------- libusb_submit_transfer *)
\* The counter incremented whatever libusb_submit_transfer answered.
SubmitTransferUnchecked(s, ok) ==
    /\ slot' = [slot EXCEPT ![s] = IF ok THEN "Submitted" ELSE "Idle"]
    /\ xfers_in_progress' = xfers_in_progress + 1

\* lines 94-95 and 472-474: if (libusb_submit_transfer(t) == 0)
\* xfers_in_progress++;  ok is the library's answer.  A transfer the library
\* refused is not in flight: no completion will be delivered for it.
SubmitTransfer(s, ok) ==
    /\ slot' = [slot EXCEPT ![s] = IF ok THEN "Submitted" ELSE "Idle"]
    /\ xfers_in_progress' = IF ok THEN xfers_in_progress + 1
                                  ELSE xfers_in_progress

(* ------------------------------------------------------- transfer_callback *)
\* libusb invokes completion callbacks from inside its event handling:
\* libusb_handle_events (lines 501, 510) and the synchronous control transfer
\* behind command_send/argument_send (lines 487-497), once it has been sent.
Pumping ==
    \/ pc \in {"events", "drain_events"}
    \/ pc = "config" /\ Len(cmds) >= 1

\* what the callback does to the buffer of a transfer that completed with
\* len bytes, in program order: lines 83-87, then line 88
Op(op, len) == [op |-> op, len |-> len]
BufferOps(len) ==
    (IF randomizer THEN <<Op("transform", len)>> ELSE << >>)
        \o <<Op("write", len)>>

\* The callback counting every completion as a success.
CallbackBodyMiscount(s, ok, len, wr, epipe) ==
    /\ xfers_in_progress' = xfers_in_progress - 1
    /\ success_count' = (success_count + 1) % CountMod
    /\ UNCHANGED failure_count
    /\ slot' = [slot EXCEPT ![s] = IF ok THEN "CompletedOk" ELSE "CompletedErr"]
    /\ size' = IF ok THEN len ELSE 0
    /\ ret' = IF ok THEN wr ELSE 0
    /\ pending' = IF ok /\ wr < 0 /\ epipe /\ len > 0 THEN "SIGPIPE"
                                                      ELSE "none"
    /\ cbops' = IF ok THEN BufferOps(len) ELSE << >>
    /\ cb' = s
    /\ cbpc' = "check"

\* The callback writing the buffer of a failed transfer as well.
CallbackBodyWriteOnError(s, ok, len, wr, epipe) ==
    /\ xfers_in_progress' = xfers_in_progress - 1
    /\ IF ~ok
         THEN /\ failure_count' = (failure_count + 1) % CountMod
              /\ UNCHANGED success_count
              /\ slot' = [slot EXCEPT ![s] = "CompletedErr"]
              /\ size' = 0
              /\ ret' = 0
              /\ cbops' = <<Op("write", len)>>
              /\ UNCHANGED pending
         ELSE /\ size' = len
              /\ success_count' = (success_count + 1) % CountMod
              /\ UNCHANGED failure_count
              /\ slot' = [slot EXCEPT ![s] = "CompletedOk"]
              /\ cbops' = BufferOps(len)
              /\ ret' = wr
              /\ pending' = IF wr < 0 /\ epipe /\ len > 0 THEN "SIGPIPE"
                                                          ELSE "none"
    /\ cb' = s
    /\ cbpc' = "check"

\* lines 68-92: the callback up to its flag check, for slot s completing with
\* status COMPLETED (ok) or any other, actual_length len; wr is what write()
\* returns and epipe tells whether a failing write() of at least one byte hit
\* a broken pipe, which raises SIGPIPE.
CallbackBody(s, ok, len, wr, epipe) ==
    /\ xfers_in_progress' = xfers_in_progress - 1
    /\ IF ~ok
         THEN /\ failure_count' = (failure_count + 1) % CountMod
              /\ UNCHANGED success_count
              /\ slot' = [slot EXCEPT ![s] = "CompletedErr"]
              /\ size' = 0
              /\ ret' = 0
              /\ cbops' = << >>
              /\ UNCHANGED pending
         ELSE /\ size' = len
              /\ success_count' = (success_count + 1) % CountMod
              /\ UNCHANGED failure_count
              /\ slot' = [slot EXCEPT ![s] = "CompletedOk"]
              /\ cbops' = BufferOps(len)
              /\ ret' = wr
              /\ pending' = IF wr < 0 /\ epipe /\ len > 0 THEN "SIGPIPE"
                                                          ELSE "none"
    /\ cb' = s
    /\ cbpc' = "check"

CallbackBegin ==
    /\ Running
    /\ Pumping
    /\ cb = -1
    /\ \E s \in Slots :
        /\ slot[s] = "Submitted"
        /\ \E ok \in BOOLEAN, len \in 0 .. MaxLen :
             \E wr \in -1 .. len, epipe \in BOOLEAN :
                CallbackBody(s, ok, len, wr, epipe)
    /\ UNCHANGED <<opts, rest, mem, pc, idx, pool, stop_transfers, cmds, stopsig>>

\* return from transfer_callback: its locals die
CallbackReturn ==
    /\ cb' = -1
    /\ cbops' = << >>
    /\ cbpc' = "none"
    /\ size' = 0
    /\ ret' = 0

\* The callback resubmitting whatever the flag says.
CallbackCheckIgnoreStop ==
    /\ Running
    /\ cb # -1
    /\ cbpc = "check"
    /\ cbpc' = "submit"
    /\ UNCHANGED <<cb, size, ret, cbops>>
    /\ UNCHANGED <<opts, rest, mem, pc, idx, pool, slot, stop_transfers,
                   xfers_in_progress, counters, cmds, pending, stopsig>>

\* The callback giving up the slot when its sink write failed.
CallbackCheckAbortOnWriteError ==
    /\ Running
    /\ cb # -1
    /\ cbpc = "check"
    /\ IF stop_transfers \/ ret < 0
         THEN CallbackReturn
         ELSE cbpc' = "submit" /\ UNCHANGED <<cb, size, ret, cbops>>
    /\ UNCHANGED <<opts, rest, mem, pc, idx, pool, slot, stop_transfers,
                   xfers_in_progress, counters, cmds, pending, stopsig>>

\* line 93: if (!stop_transfers)
CallbackCheck ==
    /\ Running
    /\ cb # -1
    /\ cbpc = "check"
    /\ IF stop_transfers
         THEN CallbackReturn
         ELSE cbpc' = "submit" /\ UNCHANGED <<cb, size, ret, cbops>>
    /\ UNCHANGED <<opts, rest, mem, pc, idx, pool, slot, stop_transfers,
                   xfers_in_progress, counters, cmds, pending, stopsig>>

\* lines 94-95
CallbackSubmit ==
    /\ Running
    /\ cb # -1
    /\ cbpc = "submit"
    /\ \E ok \in BOOLEAN : SubmitTransfer(cb, ok)
    /\ CallbackReturn
    /\ UNCHANGED <<opts, rest, mem, pc, idx, pool, stop_transfers, counters, cmds,
                   pending, stopsig>>

(* ------------------------------------------------------------------- main *)
\* main() itself advances only while no callback is executing.
MainRuns == Running /\ cb = -1

\* lines 444-455: calloc of the two tables; a table that cannot be had ends
\* the run (goto end when there is nothing to free, else free_transfer_buf)
AllocPool ==
    /\ MainRuns
    /\ pc = "alloc"
    /\ \E okd \in BOOLEAN, okt \in BOOLEAN :
         IF ~okd
           THEN /\ pc' = "end"
                /\ UNCHANGED tables
           ELSE /\ tables' = [databuffers |-> "allocated",
                              transfers |-> IF okt THEN "allocated" ELSE "NULL"]
                /\ pc' = IF okt THEN "alloc_slots" ELSE "free_transfer_buf"
    /\ UNCHANGED <<opts, rest, ai, databuffers, transfers, allocs, frees, pool,
                   idx, slot, cbvars, stop_transfers, xfers_in_progress,
                   counters, cmds, pending, stopsig>>

\* malloc / libusb_alloc_transfer: the pointer stored, and the history
Allocated(ptrs, s, ok) ==
    [ptrs EXCEPT ![s] = IF ok THEN "allocated" ELSE "NULL"]

CountAllocs(s, okb, okx) ==
    [allocs EXCEPT !["databuffers"][s] = @ + (IF okb THEN 1 ELSE 0),
                   !["transfers"][s] = @ + (IF okx THEN 1 ELSE 0)]

\* lines 460-466: one iteration of the allocation loop: both allocations are
\* made, then both results are tested
AllocSlot ==
    /\ MainRuns
    /\ pc = "alloc_slots"
    /\ ai < queuedepth
    /\ \E okb \in BOOLEAN, okx \in BOOLEAN :
         /\ databuffers' = Allocated(databuffers, ai, okb)
         /\ transfers' = Allocated(transfers, ai, okx)
         /\ allocs' = CountAllocs(ai, okb, okx)
         /\ IF ~okb \/ ~okx
              THEN pc' = "free_transfer_buf" /\ UNCHANGED <<ai, pool>>
              ELSE /\ ai' = ai + 1
                   /\ pc' = IF ai + 1 < queuedepth THEN "alloc_slots"
                                                   ELSE "submit"
                   /\ pool' = IF ai + 1 < queuedepth THEN pool
                                                     ELSE "allocated"
    /\ UNCHANGED <<opts, rest, tables, frees, idx, slot, cbvars,
                   stop_transfers, xfers_in_progress, counters, cmds,
                   pending, stopsig>>

\* lines 468-475: one iteration of the submit loop
SubmitInitial ==
    /\ MainRuns
    /\ pc = "submit"
    /\ idx < queuedepth
    /\ \E ok \in BOOLEAN : SubmitTransfer(idx, ok)
    /\ idx' = idx + 1
    /\ pc' = IF idx + 1 < queuedepth THEN "submit" ELSE "config"
    /\ UNCHANGED <<opts, rest, mem, pool, cbvars, stop_transfers, counters, cmds,
                   pending, stopsig>>

\* The configuration commands sent without waiting for the submit loop.
SendConfigEarly ==
    /\ MainRuns
    /\ pc \in {"submit", "config"}
    /\ Len(cmds) < Len(ConfigSeq)
    /\ cmds' = Append(cmds, ConfigSeq[Len(cmds) + 1])
    /\ pc' = IF pc = "submit" THEN "submit"
             ELSE IF Len(cmds) + 1 < Len(ConfigSeq) THEN "config" ELSE "events"
    /\ UNCHANGED <<opts, rest, mem, idx, pool, slot, cbvars, stop_transfers,
                   xfers_in_progress, counters, pending, stopsig>>

\* lines 486-497: the next configuration command
SendConfig ==
    /\ MainRuns
    /\ pc = "config"
    /\ Len(cmds) < Len(ConfigSeq)
    /\ cmds' = Append(cmds, ConfigSeq[Len(cmds) + 1])
    /\ pc' = IF Len(cmds) + 1 < Len(ConfigSeq) THEN "config" ELSE "events"
    /\ UNCHANGED <<opts, rest, mem, idx, pool, slot, cbvars, stop_transfers,
                   xfers_in_progress, counters, pending, stopsig>>

\* line 501: libusb_handle_events returns
HandleEventsReturn ==
    /\ MainRuns
    /\ pc = "events"
    /\ pc' = "loopcheck"
    /\ UNCHANGED <<opts, rest, mem, idx, pool, slot, cbvars, stop_transfers,
                   xfers_in_progress, counters, cmds, pending, stopsig>>

\* The main loop left straight for the teardown, the drain loop skipped.
LoopCheckNoDrain ==
    /\ MainRuns
    /\ pc = "loopcheck"
    /\ pc' = IF stop_transfers THEN "stop_cmd" ELSE "events"
    /\ UNCHANGED <<opts, rest, mem, idx, pool, slot, cbvars, stop_transfers,
                   xfers_in_progress, counters, cmds, pending, stopsig>>

\* lines 503-506: while (stop_transfers != true); on exit stop_transfers = true
LoopCheck ==
    /\ MainRuns
    /\ pc = "loopcheck"
    /\ pc' = IF stop_transfers THEN "drain" ELSE "events"
    /\ UNCHANGED <<opts, rest, mem, idx, pool, slot, cbvars, stop_transfers,
                   xfers_in_progress, counters, cmds, pending, stopsig>>

\* The drain loop left without waiting for the transfers in flight.
DrainCheckNoWait ==
    /\ MainRuns
    /\ pc = "drain"
    /\ pc' = "stop_cmd"
    /\ UNCHANGED <<opts, rest, mem, idx, pool, slot, cbvars, stop_transfers,
                   xfers_in_progress, counters, cmds, pending, stopsig>>

\* line 508: while (xfers_in_progress != 0)
DrainCheck ==
    /\ MainRuns
    /\ pc = "drain"
    /\ pc' = IF xfers_in_progress # 0 THEN "drain_events" ELSE "stop_cmd"
    /\ UNCHANGED <<opts, rest, mem, idx, pool, slot, cbvars, stop_transfers,
                   xfers_in_progress, counters, cmds, pending, stopsig>>

\* lines 510-511: libusb_handle_events returns, usleep
DrainEventsReturn ==
    /\ MainRuns
    /\ pc = "drain_events"
    /\ pc' = "drain"
    /\ UNCHANGED <<opts, rest, mem, idx, pool, slot, cbvars, stop_transfers,
                   xfers_in_progress, counters, cmds, pending, stopsig>>

\* line 515: command_send(dev_handle, STOPFX3, 0)
SendStop ==
    /\ MainRuns
    /\ pc = "stop_cmd"
    /\ cmds' = Append(cmds, StopCmd)
    /\ pc' = "free_transfer_buf"
    /\ UNCHANGED <<opts, rest, mem, idx, pool, slot, cbvars, stop_transfers,
                   xfers_in_progress, counters, pending, stopsig>>

\* one half of free_transfer_buffers: with the table there, every entry
\* that is not NULL is freed and set to NULL
FreedCount(kind, ptrs) ==
    [s \in Slots |->
        frees[kind][s]
          + (IF tables[kind] = "allocated" /\ ptrs[s] # "NULL" THEN 1 ELSE 0)]

Nulled(kind, ptrs) ==
    IF tables[kind] = "allocated" THEN [s \in Slots |-> "NULL"] ELSE ptrs

\* free_transfer_buffers forgetting the transfer structures.
FreeTransferBuffersLeaky ==
    /\ MainRuns
    /\ pc = "free_transfer_buf"
    /\ frees' = [frees EXCEPT
                   !["databuffers"] = FreedCount("databuffers", databuffers)]
    /\ databuffers' = Nulled("databuffers", databuffers)
    /\ UNCHANGED transfers
    /\ tables' = [databuffers |-> IF tables.databuffers = "allocated"
                                    THEN "freed" ELSE tables.databuffers,
                  transfers |-> tables.transfers]
    /\ pool' = IF pool = "allocated" THEN "freed" ELSE pool
    /\ pc' = "end"
    /\ UNCHANGED <<opts, rest, ai, allocs, idx, slot, cbvars, stop_transfers,
                   xfers_in_progress, counters, cmds, pending, stopsig>>

\* lines 518-519 and 100-123: free_transfer_buffers
FreeTransferBuffers ==
    /\ MainRuns
    /\ pc = "free_transfer_buf"
    /\ frees' = [databuffers |-> FreedCount("databuffers", databuffers),
                 transfers |-> FreedCount("transfers", transfers)]
    /\ databuffers' = Nulled("databuffers", databuffers)
    /\ transfers' = Nulled("transfers", transfers)
    /\ tables' = [k \in {"databuffers", "transfers"} |->
                    IF tables[k] = "allocated" THEN "freed" ELSE tables[k]]
    /\ pool' = IF pool = "allocated" THEN "freed" ELSE pool
    /\ pc' = "end"
    /\ UNCHANGED <<opts, rest, ai, allocs, idx, slot, cbvars, stop_transfers,
                   xfers_in_progress, counters, cmds, pending, stopsig>>

\* the handle dev_handle points to is open
HandleOpen == dev_handle # 0 /\ handles[dev_handle].closes = 0

\* The cleanup leaving the handle open.
CloseHandleSkipped ==
    handles' = handles

\* lines 533-535: if (dev_handle) libusb_close(dev_handle);
CloseHandle ==
    handles' = IF dev_handle = 0 THEN handles
               ELSE [handles EXCEPT ![dev_handle].closes = @ + 1]

\* where the cleanup ends: closing a handle that is already closed is a use
\* of freed memory, after which the process may also die
CleanupEnds == IF dev_handle = 0 \/ HandleOpen THEN {"done"}
                                                ELSE {"done", "crashed"}

\* lines 521-538: release the interface, close the handle, return
Exit ==
    /\ MainRuns
    /\ pc = "end"
    /\ CloseHandle
    /\ pc' \in CleanupEnds
    /\ UNCHANGED <<opts, env, mem, idx, pool, slot, cbvars, stop_transfers,
                   xfers_in_progress, counters, cmds, pending, stopsig>>

\* the steps of the program itself, other than the arrival of a completion
ProgramStep ==
    \/ CallbackCheck
    \/ CallbackSubmit
    \/ AllocPool
    \/ AllocSlot
    \/ SubmitInitial
    \/ SendConfig
    \/ HandleEventsReturn
    \/ LoopCheck
    \/ DrainCheck
    \/ DrainEventsReturn
    \/ SendStop
    \/ FreeTransferBuffers
    \/ Exit

Next ==
    \/ Signal
    \/ SigPipe
    \/ CallbackBegin
    \/ CallbackCheck
    \/ CallbackSubmit
    \/ AllocPool
    \/ AllocSlot
    \/ SubmitInitial
    \/ SendConfig
    \/ HandleEventsReturn
    \/ LoopCheck
    \/ DrainCheck
    \/ DrainEventsReturn
    \/ SendStop
    \/ FreeTransferBuffers
    \/ Exit

Spec == Init /\ [][Next]_vars

(* --------------------------------------------------------- post-processor *)
\* lines 82-87 of transfer_callback, over the bytes of the buffer.  The
\* buffer is read as uint16_t samples[]; the byte order is that of the host,
\* little-endian like the device.
ByteValues == {0, 1, 128, 255}

RECURSIVE XorBits(_, _, _)
\* a ^ b over the low n bits
XorBits(a, b, n) ==
    IF n = 0 THEN 0
    ELSE (((a % 2) + (b % 2)) % 2) + 2 * XorBits(a \div 2, b \div 2, n - 1)

\* The mask covering bit 0 as well.
DerandomizeSampleAllBits(s) ==
    XorBits(s, 65535 * (s % 2), 32) % 65536

\* line 85: samples[i] ^= 0xfffe * (samples[i] & 1), stored as uint16_t
DerandomizeSample(s) ==
    XorBits(s, 65534 * (s % 2), 32) % 65536

\* samples[i] of buffer b (i counted from 0)
SampleAt(b, i) == b[2 * i + 1] + 256 * b[2 * i + 2]

\* The loop running over every sample of the buffer, whatever was received.
DerandomizedWholeBuffer(b, sz) ==
    [p \in 1 .. Len(b) |->
        LET i == (p - 1) \div 2
        IN  IF 2 * i + 2 <= Len(b)
              THEN LET n == DerandomizeSample(SampleAt(b, i))
                   IN  IF p % 2 = 1 THEN n % 256 ELSE n \div 256
              ELSE b[p]]

\* lines 84-86: for (int i = 0; i < size / 2; i++): the buffer afterwards
Derandomized(b, sz) ==
    [p \in 1 .. Len(b) |->
        LET i == (p - 1) \div 2
        IN  IF i < sz \div 2
              THEN LET n == DerandomizeSample(SampleAt(b, i))
                   IN  IF p % 2 = 1 THEN n % 256 ELSE n \div 256
              ELSE b[p]]

\* lines 83-87 run once over the buffer
PostProcess ==
    /\ cb # -1
    /\ cbpc = "transform"
    /\ passes < 2
    /\ buf' = IF randomizer THEN Derandomized(buf, size) ELSE buf
    /\ passes' = passes + 1
    /\ UNCHANGED <<opts, firmware, device, dev_handle, fwloads, claimed, fatal,
                   orig, plan, handles, mem, pc, idx, pool, slot, cbvars,
                   stop_transfers, xfers_in_progress, counters, cmds, pending,
                   stopsig>>

\* transfer_callback at line 82, in the main loop of a run with one slot:
\* the transfer completed with size bytes received into its buffer.
XformInit ==
    /\ queuedepth = 1
    /\ randomizer \in BOOLEAN
    /\ dither = FALSE
    /\ samplerate = DefaultSampleRate
    /\ xtalFreq = DefaultXtalFreq
    /\ pc = "events"
    /\ idx = 1
    /\ pool = "allocated"
    /\ slot = [s \in Slots |-> "CompletedOk"]
    /\ cb = 0
    /\ cbpc = "transform"
    /\ cbops = << >>
    /\ buf \in UNION {[1 .. n -> ByteValues] : n \in 0 .. MaxBufLen}
    /\ size \in 0 .. Len(buf)
    /\ ret = 0
    /\ stop_transfers = FALSE
    /\ xfers_in_progress = 0
    /\ success_count = 1
    /\ failure_count = 0
    /\ cmds = ConfigSeq
    /\ pending = "none"
    /\ stopsig = "none"
    /\ ai = 1
    /\ tables = [databuffers |-> "allocated", transfers |-> "allocated"]
    /\ databuffers = [s \in Slots |-> "allocated"]
    /\ transfers = [s \in Slots |-> "allocated"]
    /\ allocs = [k \in {"databuffers", "transfers"} |-> [s \in Slots |-> 1]]
    /\ frees = [k \in {"databuffers", "transfers"} |-> [s \in Slots |-> 0]]
    /\ firmware = TRUE
    /\ device = "Operational"
    /\ dev_handle = 1
    /\ handles = <<Handle("Operational")>>
    /\ fwloads = 0
    /\ claimed = "claimed"
    /\ fatal = "none"
    /\ orig = buf
    /\ passes = 0
    /\ plan = << >>

XformNext == PostProcess

XformSpec == XformInit /\ [][XformNext]_vars

(* ------------------------------------------------------------ actual_freq *)
\* lines 152-193.  The function works in double on values that are whole
\* numbers below 2^53, where its products are exact and the truncation of a
\* quotient is the floor of the exact quotient; the model computes in
\* integers, the product l * 1048575 bit by bit of the multiplier so that no
\* intermediate value passes 2^31.
RECURSIVE Doubled(_)
\* lines 153-154: while (frequency < 1000000) frequency = frequency * 2;
Doubled(frequency) ==
    IF frequency < 1000000 THEN Doubled(frequency * 2) ELSE frequency

RECURSIVE MulDiv(_, _, _)
\* <<quotient, remainder>> of a * k by x
MulDiv(a, k, x) ==
    IF k = 0 THEN <<0, 0>>
    ELSE LET h == MulDiv(a, k \div 2, x)
             r == 2 * h[2] + (k % 2) * a
         IN  <<2 * h[1] + (r \div x), r % x>>

\* The numerator rounded to the nearest integer.
actual_freq_rounding(frequency) ==
    LET f == Doubled(frequency)
        d == MaxPllFreq \div f
        divider == IF d % 2 = 1 THEN d - 1 ELSE d
        pllFreq == divider * f
        l == pllFreq % xtalFreq
        qr == MulDiv(l, denom, xtalFreq)
    IN  [frequency |-> f,
         divider |-> divider,
         pllFreq |-> pllFreq,
         mult |-> (pllFreq \div xtalFreq) % 256,
         l |-> l,
         num |-> qr[1] + (IF 2 * qr[2] >= xtalFreq THEN 1 ELSE 0),
         denom |-> denom]

\* lines 152-181: the clock plan; mult is uint8_t, num = (uint32_t)f
actual_freq(frequency) ==
    LET f == Doubled(frequency)
        d == MaxPllFreq \div f
        divider == IF d % 2 = 1 THEN d - 1 ELSE d
        pllFreq == divider * f
        l == pllFreq % xtalFreq
    IN  [frequency |-> f,
         divider |-> divider,
         pllFreq |-> pllFreq,
         mult |-> (pllFreq \div xtalFreq) % 256,
         l |-> l,
         num |-> MulDiv(l, denom, xtalFreq)[1],
         denom |-> denom]

\* line 325: actual_freq((double)samplerate); main() then initialises libusb
\* and reaches the search label
ActualFreq ==
    /\ pc = "estimate"
    /\ plan' = <<actual_freq(samplerate)>>
    /\ pc' = "search"
    /\ UNCHANGED <<opts, firmware, device, dev_handle, fwloads, claimed, fatal,
                   buf, orig, passes, handles, pipeline>>

Frequencies ==
    {k * MinSampleRate + d : k \in 1 .. MaxFreqMHz, d \in {0, 1}}

\* main() at line 325: the options are parsed, nothing else has happened
ClockInit ==
    /\ queuedepth = 1
    /\ randomizer = FALSE
    /\ dither = FALSE
    /\ samplerate \in Frequencies
    /\ xtalFreq \in XtalFreqs
    /\ pc = "estimate"
    /\ idx = 0
    /\ pool = "none"
    /\ slot = [s \in Slots |-> "Idle"]
    /\ cb = -1
    /\ cbpc = "none"
    /\ cbops = << >>
    /\ size = 0
    /\ ret = 0
    /\ stop_transfers = FALSE
    /\ xfers_in_progress = 0
    /\ success_count = 0
    /\ failure_count = 0
    /\ cmds = << >>
    /\ pending = "none"
    /\ stopsig = "none"
    /\ ai = 0
    /\ tables = [databuffers |-> "NULL", transfers |-> "NULL"]
    /\ databuffers = [s \in Slots |-> "NULL"]
    /\ transfers = [s \in Slots |-> "NULL"]
    /\ allocs = [k \in {"databuffers", "transfers"} |-> [s \in Slots |-> 0]]
    /\ frees = [k \in {"databuffers", "transfers"} |-> [s \in Slots |-> 0]]
    /\ firmware = TRUE
    /\ device = "Operational"
    /\ dev_handle = 0
    /\ handles = << >>
    /\ fwloads = 0
    /\ claimed = "no"
    /\ fatal = "none"
    /\ buf = << >>
    /\ orig = << >>
    /\ passes = 0
    /\ plan = << >>

ClockNext == ActualFreq

ClockSpec == ClockInit /\ [][ClockNext]_vars

(* --------------------------------------------------------------- bring-up *)
\* Lines 360-428 and the cleanup they jump to, for a bus with at most one
\* receiver on it.  A pass over the device list (lines 369-417) is one step:
\* it reads no variable the signal handler writes.  The descriptor queries
\* (lines 371, 421-422) are taken to succeed on an open handle.

\* Without a firmware path the run going on to the claim all the same.
NoFirmwareClaims ==
    /\ MainRuns
    /\ pc = "search"
    /\ ~firmware
    /\ pc' = "claim"
    /\ UNCHANGED <<opts, rest, pipeline>>

\* lines 361 and 540-541: if (firmware) { ... } encloses everything from the
\* search label to the return; with firmware NULL main() falls through to
\* its closing brace and the process ends
NoFirmware ==
    /\ MainRuns
    /\ pc = "search"
    /\ ~firmware
    /\ pc' = "done"
    /\ UNCHANGED <<opts, rest, pipeline>>

\* libusb_open succeeded: *dev_handle is the new handle
Opened(kind) ==
    /\ handles' = Append(handles, Handle(kind))
    /\ dev_handle' = Len(handles) + 1

\* lines 369-417 with no receiver in the list: the loop opens nothing and
\* main goes on to line 419 with dev_handle as it was
SearchNone ==
    /\ MainRuns
    /\ pc = "search"
    /\ firmware
    /\ device = "absent"
    /\ pc' = "claim"
    /\ UNCHANGED <<opts, rest, pipeline>>

\* The search going on to the claim after the upload, handle left open.
SearchUnprogrammedNoRestart ==
    /\ MainRuns
    /\ pc = "search"
    /\ firmware
    /\ device = "Unprogrammed"
    /\ \E opened \in BOOLEAN, loaded \in BOOLEAN :
         IF ~opened
           THEN /\ pc' \in {"claim", "crashed"}
                /\ UNCHANGED <<device, dev_handle, handles, fwloads>>
           ELSE /\ loaded => fwloads < MaxFwLoads
                /\ Opened("Unprogrammed")
                /\ fwloads' = IF loaded THEN fwloads + 1 ELSE fwloads
                /\ device' \in IF loaded THEN ProductStates \cup {"absent"}
                                          ELSE {device}
                /\ pc' = "claim"
    /\ UNCHANGED <<opts, firmware, claimed, fatal, data, pipeline>>

\* lines 379-396: the receiver enumerates without firmware.  libusb_open
\* answers 0 or a negative error, so the test of line 382 (ret > 0) never
\* fires and a failed open goes on to ezusb_load_ram with dev_handle as it
\* was, NULL or closed: the upload fails or the process dies.  After a
\* successful upload the handle is closed (dev_handle keeps pointing to it),
\* and after sleep(3) the search restarts; meanwhile the receiver has
\* re-enumerated with the firmware, or without it, or not at all.
SearchUnprogrammed ==
    /\ MainRuns
    /\ pc = "search"
    /\ firmware
    /\ device = "Unprogrammed"
    /\ \E opened \in BOOLEAN, loaded \in BOOLEAN :
         IF ~opened
           THEN /\ pc' \in {"claim", "crashed"}
                /\ UNCHANGED <<device, dev_handle, handles, fwloads>>
           ELSE IF loaded
             THEN /\ fwloads < MaxFwLoads
                  /\ handles' = Append(handles,
                                  [Handle("Unprogrammed") EXCEPT !.closes = 1])
                  /\ dev_handle' = Len(handles) + 1
                  /\ fwloads' = fwloads + 1
                  /\ device' \in ProductStates \cup {"absent"}
                  /\ pc' = "search"
             ELSE /\ Opened("Unprogrammed")
                  /\ pc' = "claim"
                  /\ UNCHANGED <<device, fwloads>>
    /\ UNCHANGED <<opts, firmware, claimed, fatal, data, pipeline>>

\* lines 397-413: the receiver enumerates with its firmware.  A failed
\* libusb_open leaves dev_handle as it was: NULL ends the run (line 399); a
\* handle closed by an earlier pass passes that test and is used by
\* libusb_kernel_driver_active, with any outcome.
SearchOperational ==
    /\ MainRuns
    /\ pc = "search"
    /\ firmware
    /\ device = "Operational"
    /\ \E opened \in BOOLEAN, active \in BOOLEAN, detached \in BOOLEAN :
         IF opened
           THEN /\ Opened("Operational")
                /\ pc' = IF active /\ ~detached THEN "close" ELSE "claim"
                /\ fatal' = IF active /\ ~detached THEN "detach" ELSE fatal
           ELSE /\ UNCHANGED <<dev_handle, handles>>
                /\ IF dev_handle = 0
                     THEN pc' = "close" /\ fatal' = "open"
                     ELSE /\ pc' \in {"claim", "close", "crashed"}
                          /\ fatal' = IF pc' = "close" THEN "detach" ELSE fatal
    /\ UNCHANGED <<opts, firmware, device, fwloads, claimed, data, pipeline>>

\* lines 419-442: libusb_claim_interface(dev_handle, interface_number) and
\* the endpoint descriptors.  Nothing has tested that the search opened a
\* receiver with firmware: with dev_handle NULL or closed, libusb_get_device
\* and libusb_claim_interface use an invalid handle (the claim fails or the
\* process dies); with a handle to the boot loader the claim is made like
\* any other, and the endpoint of lines 432-442 may not exist.
ClaimInterface ==
    /\ MainRuns
    /\ pc = "claim"
    /\ \E ok \in BOOLEAN :
         IF ok /\ HandleOpen
           THEN /\ claimed' = "claimed"
                /\ pc' \in IF handles[dev_handle].kind = "Operational"
                             THEN {"alloc"} ELSE {"alloc", "crashed"}
                /\ UNCHANGED fatal
           ELSE /\ pc' \in IF HandleOpen THEN {"end"} ELSE {"end", "crashed"}
                /\ claimed' = IF pc' = "end" THEN "failed" ELSE claimed
                /\ fatal' = IF pc' = "end" THEN "claim" ELSE fatal
    /\ UNCHANGED <<opts, firmware, device, dev_handle, handles, fwloads,
                   data, pipeline>>

\* lines 530-538, entered by goto close
CloseExit ==
    /\ MainRuns
    /\ pc = "close"
    /\ CloseHandle
    /\ pc' \in CleanupEnds
    /\ UNCHANGED <<opts, env, pipeline>>

\* main() from the search label on, with or without option -f, the other
\* options at their defaults and a queue of one slot
BringUpInit ==
    /\ queuedepth = 1
    /\ randomizer = FALSE
    /\ dither = FALSE
    /\ samplerate = DefaultSampleRate
    /\ xtalFreq = DefaultXtalFreq
    /\ pc = "search"
    /\ idx = 0
    /\ pool = "none"
    /\ slot = [s \in Slots |-> "Idle"]
    /\ cb = -1
    /\ cbpc = "none"
    /\ cbops = << >>
    /\ size = 0
    /\ ret = 0
    /\ stop_transfers = FALSE
    /\ xfers_in_progress = 0
    /\ success_count = 0
    /\ failure_count = 0
    /\ cmds = << >>
    /\ pending = "none"
    /\ stopsig = "none"
    /\ ai = 0
    /\ tables = [databuffers |-> "NULL", transfers |-> "NULL"]
    /\ databuffers = [s \in Slots |-> "NULL"]
    /\ transfers = [s \in Slots |-> "NULL"]
    /\ allocs = [k \in {"databuffers", "transfers"} |-> [s \in Slots |-> 0]]
    /\ frees = [k \in {"databuffers", "transfers"} |-> [s \in Slots |-> 0]]
    /\ firmware \in BOOLEAN
    /\ device \in ProductStates \cup {"absent"}
    /\ dev_handle = 0
    /\ handles = << >>
    /\ fwloads = 0
    /\ claimed = "no"
    /\ fatal = "none"
    /\ NoData

BringUpNext ==
    \/ NoFirmware
    \/ SearchNone
    \/ SearchUnprogrammed
    \/ SearchOperational
    \/ ClaimInterface
    \/ CloseExit
    \/ Next

BringUpSpec == BringUpInit /\ [][BringUpNext]_vars

\* The program is scheduled (weak fairness of its own steps and of the
\* delivery of a raised SIGPIPE) and every submitted transfer eventually
\* completes (strong fairness of completion delivery: the event wait may
\* return empty-handed any number of times in between).  No fairness is
\* assumed of the termination signals.  The options only choose the
\* arguments of the configuration commands, so the fair runs are explored
\* for the default options.
FairInit ==
    /\ Init
    /\ ~randomizer
    /\ ~dither
    /\ samplerate = DefaultSampleRate

FairSpec ==
    /\ FairInit
    /\ [][Next]_vars
    /\ WF_vars(ProgramStep)
    /\ WF_vars(SigPipe)
    /\ SF_vars(CallbackBegin)

(* ================================================================ claims *)
Submitted == {s \in Slots : slot[s] = "Submitted"}
StopIssued == \E k \in 1 .. Len(cmds) : cmds[k].op = "STOPFX3"
Completed == {"CompletedOk", "CompletedErr"}

\* C1: in every reachable state the in-flight counter equals the number of
\* slots that are Submitted (submitted, completion callback not yet run), and
\* so lies in 0..queuedepth.
InFlightCountMatches ==
    /\ xfers_in_progress = Cardinality(Submitted)
    /\ 0 <= xfers_in_progress
    /\ xfers_in_progress <= queuedepth

\* C1 witness: one transfer still in flight after a shutdown signal, a failed
\* completion counted earlier, and a callback whose sink write failed running.
InFlightWitness ==
    /\ queuedepth = 2
    /\ xfers_in_progress = 1
    /\ stop_transfers
    /\ failure_count = 1
    /\ cb # -1
    /\ slot[cb] = "CompletedOk"
    /\ ret < 0

\* C2: the stop command is sent at most once, as the last command, and only
\* in a state where shutdown is requested, the main loop has been left and no
\* transfer is in flight.
StopCommandOnceAfterDrain ==
    /\ Cardinality({k \in 1 .. Len(cmds) : cmds[k].op = "STOPFX3"}) <= 1
    /\ pc = "stop_cmd" =>
          /\ stop_transfers
          /\ xfers_in_progress = 0
          /\ Submitted = {}
          /\ cb = -1
    /\ StopIssued =>
          /\ cmds[Len(cmds)] = StopCmd
          /\ stop_transfers
          /\ xfers_in_progress = 0
          /\ Submitted = {}
          /\ pc \in {"free_transfer_buf", "end", "done"}

\* C2 witness: the run ended with the stop command sent after a broken-pipe
\* shutdown that found the other slot in flight (both slots ended completed
\* and not resubmitted).
StopCommandWitness ==
    /\ pc = "done"
    /\ StopIssued
    /\ stopsig = "SIGPIPE"
    /\ queuedepth = 2
    /\ \A s \in Slots : slot[s] \in Completed

DrainPcs == {"drain", "drain_events"}

\* C3: under FairSpec (the program is scheduled, every submitted transfer
\* eventually completes), once the pool is allocated a shutdown request
\* leads to the end of the run with nothing in flight, the stop command sent
\* and the pool freed; and the drain loop is left only with the in-flight
\* counter at zero (nothing else, no timeout, ends the wait).
DrainTerminates ==
    /\ (stop_transfers /\ pool = "allocated")
          ~> (pc = "done" /\ xfers_in_progress = 0 /\ StopIssued
                /\ pool = "freed")
    /\ [][(pc \in DrainPcs /\ pc' \notin DrainPcs) => xfers_in_progress = 0]_vars

\* C3 witness: the run ended after a termination signal, the stop command
\* sent and the pool freed, both slots drained and one of them in error.
DrainWitness ==
    /\ pc = "done"
    /\ pool = "freed"
    /\ StopIssued
    /\ stopsig = "SIGTERM"
    /\ queuedepth = 2
    /\ slot[0] = "CompletedErr"
    /\ slot[1] = "CompletedOk"

\* C4 (as claimed): once stop_transfers is set no slot becomes Submitted and
\* the in-flight counter never increases.
NoSubmitAfterStop ==
    [][stop_transfers =>
          /\ xfers_in_progress' <= xfers_in_progress
          /\ \A s \in Slots : slot'[s] = "Submitted" => slot[s] = "Submitted"]_vars

\* C5: a step that sets stop_transfers changes neither the in-flight counter,
\* nor the two completion counters, nor any slot; and a Submitted slot leaves
\* that state only by the start of its own completion callback.
SignalWritesOnlyFlag ==
    /\ [][stop_transfers' # stop_transfers =>
            UNCHANGED <<xfers_in_progress, success_count, failure_count, slot>>]_vars
    /\ [][\A s \in Slots :
            (slot[s] = "Submitted" /\ slot'[s] # "Submitted") =>
                (cb = -1 /\ cb' = s /\ Pumping)]_vars

\* C5 witness: shutdown requested during the main loop, both slots still
\* Submitted, no completion yet delivered.
SignalWitness ==
    /\ stop_transfers
    /\ pc = "events"
    /\ queuedepth = 2
    /\ Submitted = Slots
    /\ xfers_in_progress = 2
    /\ success_count = 0
    /\ failure_count = 0
    /\ cb = -1

\* C6: the start of a completion callback decrements the in-flight counter,
\* leaves main where it is, and counts the completion once, in failure_count
\* for a non-success status and in success_count for a success, the other
\* counter unchanged; its flag check goes on to resubmit the same slot
\* whenever stop_transfers is not set; no step of a callback moves main.
CompletionCounted ==
    /\ [][(cb = -1 /\ cb' # -1) =>
            /\ xfers_in_progress' = xfers_in_progress - 1
            /\ pc' = pc
            /\ slot'[cb'] \in Completed
            /\ slot'[cb'] = "CompletedErr" =>
                  /\ failure_count' = (failure_count + 1) % CountMod
                  /\ success_count' = success_count
            /\ slot'[cb'] = "CompletedOk" =>
                  /\ success_count' = (success_count + 1) % CountMod
                  /\ failure_count' = failure_count]_vars
    /\ [][(cb # -1 /\ cbpc = "check" /\ cbpc' # "check" /\ ~stop_transfers) =>
            (cb' = cb /\ cbpc' = "submit")]_vars
    /\ [][(cb # -1 /\ cbpc = "submit" /\ cbpc' # "submit") =>
            /\ slot'[cb] \in {"Submitted", "Idle"}
            /\ \A s \in Slots \ {cb} : slot'[s] = slot[s]]_vars
    /\ [][(cb # -1 \/ cb' # -1) => pc' = pc]_vars

\* C6 witness: in the main loop, the callback of a transfer that completed in
\* error is about to resubmit its slot.
CompletionErrWitness ==
    /\ pc = "events"
    /\ cb # -1
    /\ slot[cb] = "CompletedErr"
    /\ cbpc = "submit"
    /\ failure_count = 1
    /\ success_count = 0
    /\ ~stop_transfers

\* a callback is at its flag check after a sink write that failed or was
\* partial, and takes that check in this step
FailedWriteChecked ==
    /\ cb # -1
    /\ slot[cb] = "CompletedOk"
    /\ ret < size
    /\ cbpc = "check"
    /\ cbpc' # "check"

\* C7 (as claimed): after a sink write failure the dispatcher keeps
\* submitting: unless a termination signal requested shutdown, a callback of
\* the main loop whose write failed goes on to resubmit its slot.
SinkFailureKeepsStreaming ==
    [][(FailedWriteChecked /\ pc = "events" /\ stopsig \notin AsyncSignals) =>
          cbpc' = "submit"]_vars

\* C7 (amended): the callback of a successful transfer whose write fails or
\* is partial does the same bookkeeping as any other (decrement, one success
\* counted, main not moved), and at its flag check resubmits the slot exactly
\* when stop_transfers is not set; a SIGPIPE is pending only for a callback
\* whose write failed, and a failed write that raised none leaves the flag
\* as it was.
SinkFailureAbsorbed ==
    /\ [][(cb = -1 /\ cb' # -1 /\ slot'[cb'] = "CompletedOk" /\ ret' < size') =>
            /\ xfers_in_progress' = xfers_in_progress - 1
            /\ success_count' = (success_count + 1) % CountMod
            /\ failure_count' = failure_count
            /\ stop_transfers' = stop_transfers
            /\ pc' = pc
            /\ cbpc' = "check"]_vars
    /\ [][FailedWriteChecked =>
            IF stop_transfers
              THEN cb' = -1 /\ slot' = slot
                     /\ xfers_in_progress' = xfers_in_progress
              ELSE cb' = cb /\ cbpc' = "submit"]_vars
    /\ [](pending = "SIGPIPE" => (cb # -1 /\ ret < 0 /\ cbpc = "check"))

\* C7 witness: with shutdown not requested, a callback whose write failed is
\* about to resubmit its slot.
SinkFailureWitness ==
    /\ cb # -1
    /\ slot[cb] = "CompletedOk"
    /\ ret < 0
    /\ cbpc = "submit"
    /\ ~stop_transfers
    /\ pc = "events"

\* C8 (as claimed): a completion of the main loop whose sink write failed or
\* was partial increases the failure counter.
WriteFailureCounted ==
    [][(cb = -1 /\ cb' # -1 /\ pc = "events" /\ slot'[cb'] = "CompletedOk"
          /\ size' > 0 /\ ret' < size') =>
          failure_count' = (failure_count + 1) % CountMod]_vars

\* slot s is Idle after a failed submission, with no attempt on it under way
FailedIdle(s) ==
    /\ s \in Slots
    /\ slot[s] = "Idle"
    /\ idx > s

\* C9 (as claimed): a slot left Idle by a failed submission is, unless
\* shutdown is requested, eventually submitted again.
FailedSubmissionRetried ==
    \A s \in 0 .. (MaxQueueDepth - 1) :
        (FailedIdle(s) /\ ~stop_transfers)
            ~> (stop_transfers \/ (s \in Slots /\ slot[s] = "Submitted")
                  \/ (cb = s /\ cbpc = "submit"))

ExpectedOps ==
    <<"GPIOFX3", "DAT31_ATT", "AD8340_VGA", "STARTADC", "STARTFX3",
      "TUNERSTDBY", "STOPFX3">>

\* C10: the commands sent so far are always a prefix of: GPIO mode bits,
\* attenuation, gain, start ADC (with the requested sample rate), start
\* streaming engine, tuner standby, stop; none is sent before the submit loop
\* has ended, all six configuration commands have been sent, once each, when
\* the main loop starts, and only the stop command follows them.
ConfigOrder ==
    /\ Len(cmds) <= Len(ExpectedOps)
    /\ \A k \in 1 .. Len(cmds) : cmds[k].op = ExpectedOps[k]
    /\ Len(cmds) >= 1 => cmds[1].arg = GpioWord(dither, randomizer)
    /\ Len(cmds) >= 4 => cmds[4].arg = samplerate
    /\ pc \in {"alloc", "alloc_slots", "submit"} => Len(cmds) = 0
    /\ pc = "config" => Len(cmds) < 6
    /\ pc \in {"events", "loopcheck", "drain", "drain_events", "stop_cmd"} =>
          Len(cmds) = 6
    /\ Len(cmds) = 7 => pc \in {"free_transfer_buf", "end", "done"}

\* C10 witness: the main loop runs with the six configuration commands sent,
\* for dither on and the minimum sample rate.
ConfigWitness ==
    /\ pc = "events"
    /\ Len(cmds) = 6
    /\ dither
    /\ ~randomizer
    /\ samplerate = MinSampleRate
    /\ cmds[1] = Cmd("GPIOFX3", DITH)
    /\ cmds[4] = Cmd("STARTADC", MinSampleRate)

\* C11 (as claimed): no slot is submitted until the six configuration
\* commands have been sent.
ConfigBeforeSubmit ==
    (Submitted # {} \/ xfers_in_progress > 0) => Len(cmds) >= Len(ConfigSeq)

\* C11 (amended): the order is the opposite one.  No configuration command
\* is sent before the submit loop has tried every slot, and while that loop
\* runs no command has been sent and no completion callback runs.
SubmitBeforeConfig ==
    /\ Len(cmds) >= 1 =>
          (idx = queuedepth /\ pc \notin {"alloc", "alloc_slots", "submit"})
    /\ pc = "submit" => (Len(cmds) = 0 /\ cb = -1)
    /\ pc = "config" => idx = queuedepth

\* C11 witness: every slot is in flight and no configuration command has
\* been sent yet.
SubmitBeforeConfigWitness ==
    /\ pc = "config"
    /\ Len(cmds) = 0
    /\ queuedepth = 2
    /\ xfers_in_progress = 2
    /\ Submitted = Slots

Kinds == {"databuffers", "transfers"}

\* an allocation failed: the run is past the allocation and the pool was
\* never complete
AllocationFailed ==
    /\ pool = "none"
    /\ pc \in {"free_transfer_buf", "end", "done"}

\* C12: every buffer and every descriptor is allocated at most once and freed
\* at most once, and only if allocated; a complete pool has exactly one
\* buffer and one descriptor per slot (queuedepth of each); past the
\* teardown, and so at process exit, everything allocated has been freed
\* exactly once and both tables are gone; and a run in which an allocation
\* (table, buffer or descriptor) failed has submitted no slot and sent no
\* command.
AllocFreeBalanced ==
    /\ \A k \in Kinds : \A s \in Slots :
          /\ allocs[k][s] <= 1
          /\ frees[k][s] <= allocs[k][s]
    /\ pool \in {"allocated", "freed"} =>
          \A k \in Kinds : \A s \in Slots : allocs[k][s] = 1
    /\ pc \in {"end", "done"} =>
          /\ \A k \in Kinds : \A s \in Slots : frees[k][s] = allocs[k][s]
          /\ \A k \in Kinds : tables[k] # "allocated"
    /\ AllocationFailed =>
          /\ idx = 0
          /\ \A s \in Slots : slot[s] = "Idle"
          /\ xfers_in_progress = 0
          /\ cmds = << >>

\* C12 witness: the run ended after the descriptor of the second slot could
\* not be allocated; the three allocations made were freed, once each.
AllocFailureWitness ==
    /\ pc = "done"
    /\ queuedepth = 2
    /\ AllocationFailed
    /\ allocs["databuffers"] = [s \in Slots |-> 1]
    /\ allocs["transfers"][0] = 1
    /\ allocs["transfers"][1] = 0
    /\ frees = allocs

\* C13: a slot that is Submitted, or whose completion callback is running,
\* has its buffer and its descriptor allocated and never freed; the step that
\* frees anything is taken with shutdown requested, nothing in flight and no
\* callback running; and once the pool is freed no slot is Submitted, no
\* callback runs and main is past the teardown.
PoolFreedAfterDrain ==
    /\ [](\A s \in Slots : (slot[s] = "Submitted" \/ cb = s) =>
             /\ databuffers[s] = "allocated"
             /\ transfers[s] = "allocated"
             /\ \A k \in Kinds : frees[k][s] = 0)
    /\ [][(frees' # frees /\ pool = "allocated") =>
             /\ stop_transfers
             /\ xfers_in_progress = 0
             /\ Submitted = {}
             /\ cb = -1
             /\ StopIssued]_vars
    /\ [](pool = "freed" =>
             /\ Submitted = {}
             /\ cb = -1
             /\ pc \in {"end", "done"})

\* C13 witness: the pool of two slots has been freed after a drain that
\* delivered completions; both slots ended completed.
PoolFreedWitness ==
    /\ pool = "freed"
    /\ pc = "end"
    /\ queuedepth = 2
    /\ \A s \in Slots : slot[s] \in Completed
    /\ \A k \in Kinds : frees[k] = [s \in Slots |-> 1]
    /\ success_count = 1

\* dev_handle points to a handle opened on a receiver with firmware
HandleOperational ==
    /\ dev_handle # 0
    /\ handles[dev_handle].kind = "Operational"

\* C14 (as claimed): the interface is claimed, the pool allocated, a slot
\* submitted or a command sent only with a handle opened on a receiver that
\* enumerated Operational; a search that found none ends with nothing
\* claimed.
ClaimOnlyOperational ==
    (\/ claimed = "claimed"
     \/ pool # "none"
     \/ Submitted # {}
     \/ cmds # << >>) => HandleOperational

\* nothing of the pipeline has been set up
NothingStarted ==
    /\ pool = "none"
    /\ \A k \in Kinds : tables[k] = "NULL"
    /\ \A k \in Kinds : \A s \in Slots : allocs[k][s] = 0
    /\ idx = 0
    /\ \A s \in Slots : slot[s] = "Idle"
    /\ xfers_in_progress = 0
    /\ cmds = << >>

\* C15: when the detach of the kernel driver or the claim of the interface
\* has failed on a handle opened on an Operational receiver, the run is in
\* its cleanup or over, no table, buffer or descriptor was allocated, no slot
\* submitted and no command sent, and that handle is closed at most once,
\* exactly once when the run is over.
StartupFailureUnwinds ==
    (fatal \in {"detach", "claim"} /\ HandleOperational) =>
        /\ pc \in {"close", "end", "done"}
        /\ NothingStarted
        /\ claimed # "claimed"
        /\ handles[dev_handle].closes <= 1
        /\ pc = "done" <=> handles[dev_handle].closes = 1

\* C15 witness: the run is over after the claim failed on the Operational
\* receiver found by the pass that followed a firmware transfer; each of the
\* two handles was closed once.
StartupFailureWitness ==
    /\ pc = "done"
    /\ fatal = "claim"
    /\ claimed = "failed"
    /\ fwloads = 1
    /\ handles = <<[kind |-> "Unprogrammed", closes |-> 1],
                   [kind |-> "Operational", closes |-> 1]>>
    /\ dev_handle = 2

\* C16: a successful firmware transfer happens in a pass that saw the
\* receiver Unprogrammed, and that pass closes the handle it opened and
\* restarts the search, claiming nothing and touching nothing of the
\* pipeline; a pass that sees the receiver Operational transfers no firmware
\* and, having opened it, goes on to the claim (or to the cleanup when the
\* detach fails); while the search runs nothing is claimed or started; and
\* the program puts no limit on the restarts: below the bound of the model
\* a pass that sees an Unprogrammed receiver can always transfer again.
FirmwareThenRestart ==
    /\ [][fwloads' # fwloads =>
            /\ pc = "search" /\ device = "Unprogrammed"
            /\ fwloads' = fwloads + 1
            /\ pc' = "search"
            /\ handles' = Append(handles,
                                 [kind |-> "Unprogrammed", closes |-> 1])
            /\ dev_handle' = Len(handles')
            /\ claimed' = "no"
            /\ UNCHANGED pipeline]_vars
    /\ [][device = "Operational" => fwloads' = fwloads]_vars
    /\ [][(pc = "search" /\ device = "Operational" /\ handles' # handles) =>
            /\ handles' = Append(handles, Handle("Operational"))
            /\ dev_handle' = Len(handles')
            /\ pc' \in {"claim", "close"}
            /\ pc' = "close" <=> fatal' = "detach"]_vars
    /\ [](pc = "search" =>
            /\ claimed = "no"
            /\ NothingStarted
            /\ \A h \in 1 .. Len(handles) :
                  handles[h] = [kind |-> "Unprogrammed", closes |-> 1]
            /\ Len(handles) = fwloads)
    /\ []((pc = "search" /\ firmware /\ device = "Unprogrammed"
              /\ fwloads < MaxFwLoads /\ pending = "none") =>
            ENABLED <<SearchUnprogrammed /\ pc' = "search">>_vars)

\* C16 witness: the receiver enumerated Unprogrammed in every pass the model
\* allows, then Operational; the last pass opened it and the interface is
\* claimed, with no firmware transfer in that pass.
FirmwareRestartWitness ==
    /\ fwloads = MaxFwLoads
    /\ Len(handles) = MaxFwLoads + 1
    /\ \A h \in 1 .. MaxFwLoads :
          handles[h] = [kind |-> "Unprogrammed", closes |-> 1]
    /\ handles[dev_handle] = Handle("Operational")
    /\ claimed = "claimed"
    /\ pc = "alloc"

\* C17: a buffer over which the post-processor has run twice holds the bytes
\* it held at first, whatever its length, the length received and the
\* setting of the randomizer option.
PostProcessInvolution ==
    passes = 2 => buf = orig

\* C17 witness: two passes over a buffer of two odd samples, both received
\* in full, with the option on.
InvolutionWitness ==
    /\ passes = 2
    /\ randomizer
    /\ size = 4
    /\ orig = <<1, 128, 255, 0>>
    /\ buf = orig

\* byte p of a buffer belongs to a complete sample within the sz bytes
\* received
InCompleteSample(p, sz) == 2 * ((p - 1) \div 2) + 2 <= sz

\* C18: after one pass with the option on, every complete 16-bit sample S
\* within the bytes received reads S when S is even and 65536 - S (which is
\* S with its bits 1..15 inverted, bit 0 kept) when S is odd, and every other
\* byte (a trailing odd byte, the bytes beyond the length received) is as it
\* was; with the option off the buffer is as it was.
PostProcessMapping ==
    passes = 1 =>
        /\ Len(buf) = Len(orig)
        /\ ~randomizer => buf = orig
        /\ randomizer =>
              \A p \in 1 .. Len(buf) :
                 IF InCompleteSample(p, size)
                   THEN LET i == (p - 1) \div 2
                            S == SampleAt(orig, i)
                            T == SampleAt(buf, i)
                        IN  /\ T = IF S % 2 = 0 THEN S ELSE 65536 - S
                            /\ T % 2 = S % 2
                   ELSE buf[p] = orig[p]

\* C18 witness: one pass with the option on over a buffer of four bytes of
\* which three were received: the odd sample 0x00ff became 0xff01, the
\* trailing odd byte and the byte beyond the length received, both odd, stay.
MappingWitness ==
    /\ passes = 1
    /\ randomizer
    /\ size = 3
    /\ orig = <<255, 0, 255, 1>>
    /\ buf = <<1, 255, 255, 1>>

\* the digits, base 32768 and most significant first, of a * b for a and b
\* below 2^25
Product(a, b) ==
    LET a1 == a \div 32768
        a0 == a % 32768
        b1 == b \div 32768
        b0 == b % 32768
        low == a0 * b0
        mid == a1 * b0 + a0 * b1 + (low \div 32768)
    IN  <<a1 * b1 + (mid \div 32768), mid % 32768, low % 32768>>

\* x <= y, for numbers given by three digits
DigitsLeq(x, y) ==
    \/ x[1] < y[1]
    \/ x[1] = y[1] /\ x[2] < y[2]
    \/ x[1] = y[1] /\ x[2] = y[2] /\ x[3] <= y[3]

\* the plan has the divider, PLL frequency, multiplier and remainder of the
\* claim, for the crystal frequency X
PlanDividerAndMultiplier(X) ==
    LET q == MaxPllFreq \div samplerate
    IN  /\ plan[1].frequency = samplerate
        /\ plan[1].divider % 2 = 0
        /\ plan[1].divider = IF q % 2 = 0 THEN q ELSE q - 1
        /\ plan[1].pllFreq = plan[1].divider * samplerate
        /\ plan[1].mult * X + plan[1].l = plan[1].pllFreq
        /\ 0 <= plan[1].l /\ plan[1].l < X
        /\ plan[1].denom = 1048575
        /\ samplerate = 8000000 =>
              (plan[1].divider = 112 /\ plan[1].pllFreq = 896000000)

\* C19 (as claimed): the numerator is the integer nearest to
\* L * 1,048,575 / X, the rest of the plan being as described.
ClockPlanRounded ==
    plan # << >> =>
        /\ PlanDividerAndMultiplier(xtalFreq)
        /\ LET qr == MulDiv(plan[1].l, 1048575, xtalFreq)
           IN  plan[1].num = IF 2 * qr[2] > xtalFreq THEN qr[1] + 1 ELSE qr[1]

\* C19 (amended): for every accepted sample rate f (no doubling happens:
\* f >= 1,000,000) and either crystal frequency X, 27,000,000 or
\* 10,000,000: D = floor(900,000,000 / f) less one if odd, so D is even;
\* P = D * f; M = floor(P / X); L = P mod X; N = floor(L * 1,048,575 / X),
\* that is N * X <= L * 1,048,575 < (N + 1) * X; the denominator is
\* 1,048,575; 8,000,000 Hz gives D = 112 and P = 896,000,000.  The call
\* changes nothing but the plan and the position of main.
ClockPlanTruncated ==
    /\ [](plan # << >> =>
            /\ xtalFreq \in {27000000, 10000000}
            /\ PlanDividerAndMultiplier(xtalFreq)
            /\ DigitsLeq(Product(plan[1].num, xtalFreq),
                         Product(plan[1].l, 1048575))
            /\ ~DigitsLeq(Product(plan[1].num + 1, xtalFreq),
                          Product(plan[1].l, 1048575)))
    /\ [][plan' # plan =>
            UNCHANGED <<opts, firmware, device, dev_handle, fwloads, claimed,
                        fatal, buf, orig, passes, handles, pipeline>>]_vars

\* C19 witness: the plan for 8,000,000 Hz and the 27 MHz crystal: D = 112,
\* P = 896,000,000, M = 33, L = 5,000,000 and N = 194,180, the quotient
\* 194,180.55 truncated.
ClockPlanWitness ==
    /\ samplerate = 8000000
    /\ xtalFreq = 27000000
    /\ plan # << >>
    /\ plan[1].divider = 112
    /\ plan[1].pllFreq = 896000000
    /\ plan[1].mult = 33
    /\ plan[1].l = 5000000
    /\ plan[1].num = 194180

\* C20: while a completion callback works on a slot the slot is not
\* Submitted; what the callback does to the buffer is fixed in the step that
\* takes the slot out of Submitted: nothing at all, so no sink write, for a
\* transfer that did not succeed, and for a successful one the transform
\* (only when the option is on) followed by exactly one write of the length
\* received; and a slot is resubmitted only by the last step of its own
\* callback, after those.
CallbackStepOrder ==
    /\ [](cb = -1 => cbops = << >>)
    /\ [](cb # -1 =>
            /\ slot[cb] \in Completed
            /\ slot[cb] = "CompletedErr" => cbops = << >>
            /\ slot[cb] = "CompletedOk" =>
                  /\ cbops[Len(cbops)] = [op |-> "write", len |-> size]
                  /\ Len(cbops) = IF randomizer THEN 2 ELSE 1
                  /\ randomizer =>
                        cbops[1] = [op |-> "transform", len |-> size])
    /\ [][cbops' # cbops =>
            \/ cb = -1 /\ cb' # -1 /\ slot[cb'] = "Submitted"
            \/ cb # -1 /\ cb' = -1 /\ cbops' = << >>]_vars
    /\ [][\A s \in Slots :
            (slot[s] \in Completed /\ slot'[s] = "Submitted") =>
                (cb = s /\ cbpc = "submit" /\ cb' = -1)]_vars

\* C20 witness: in the main loop, with the option on, the callback of a
\* successful transfer of one byte has transformed and written and is about
\* to resubmit.
CallbackOrderWitness ==
    /\ pc = "events"
    /\ cb # -1
    /\ cbpc = "submit"
    /\ randomizer
    /\ size = 1
    /\ cbops = <<[op |-> "transform", len |-> 1], [op |-> "write", len |-> 1]>>

\* C21: in a run without a firmware path, main is at the search label or
\* has ended, and its only step from the label is the end of the process;
\* no handle was ever opened, no firmware transferred, no interface claimed,
\* no table, buffer or descriptor allocated, no slot submitted, no command
\* sent, no startup failure met and no completion callback (the only writer
\* of the sink) has run.  So whatever is claimed, allocated, submitted, sent
\* or written is so in a run with a firmware path.
NoFirmwareNothingHappens ==
    /\ [](~firmware =>
            /\ pc \in {"search", "done"}
            /\ handles = << >>
            /\ dev_handle = 0
            /\ fwloads = 0
            /\ claimed = "no"
            /\ fatal = "none"
            /\ NothingStarted
            /\ cb = -1
            /\ cbops = << >>
            /\ success_count = 0
            /\ failure_count = 0)
    /\ [][(~firmware /\ pc' # pc) => (pc = "search" /\ pc' = "done")]_vars
    /\ []((\/ handles # << >>
           \/ claimed # "no"
           \/ pool # "none"
           \/ Submitted # {}
           \/ cmds # << >>
           \/ cb # -1) => firmware)

\* C21 witness: a run without a firmware path has ended, with an Operational
\* receiver on the bus that it never opened.
NoFirmwareWitness ==
    /\ ~firmware
    /\ pc = "done"
    /\ device = "Operational"
    /\ handles = << >>
    /\ claimed = "no"
    /\ cmds = << >>
====
